---- MODULE Spec2Model ----
(***************************************************************************)
(* Model of rslib/src/scheduler/fsrs/retention.rs:                         *)
(*   Collection::get_optimal_retention_parameters  (the parameter          *)
(*   estimator over the review log) and                                    *)
(*   Collection::compute_optimal_retention  (the retention optimizer that  *)
(*   drives the external FSRS simulation engine).                          *)
(*                                                                         *)
(* Numbers.  The code computes in f64.  Every f64 the estimator produces   *)
(* is a quotient of small integers, so it is modelled as an exact rational *)
(* <<num, den>> in lowest terms; <<0, 0>> is the f64 NaN of 0.0 / 0.0.     *)
(* Retention values are binary fractions in units of 2^-26: an f32 in      *)
(* [0.5, 1) is a multiple of 2^-24, so every f32 the operation can return  *)
(* is exact and `as f32` is a real rounding; the f64 of the engine is cut  *)
(* to 2^-26.                                                               *)
(***************************************************************************)
EXTENDS Integers, Sequences, FiniteSets, TLC

VARIABLES revlogs, pc, req, p, ret, raw, estimator_calls, engine_calls,
          anki_progress, want_abort, ip, cb_returned

vars == <<revlogs, pc, req, p, ret, raw, estimator_calls, engine_calls,
          anki_progress, want_abort, ip, cb_returned>>

----------------------------------------------------------------------------
(* Bounds of the model *)

\* number of revlog entries added on top of the log the collection opens with
MaxAdded == 2
\* number of distinct cards
MaxCards == 2
\* largest counter value the engine reports through the progress callback
MaxProgress == 2
\* length of the review logs that the estimator is run on entry by entry
MaxLog == 2

----------------------------------------------------------------------------
(* RevlogReviewKind, as the index `review_kind as usize` *)

Learning == 0
Review == 1
Relearning == 2
Filtered == 3
Manual == 4

ReviewKinds == {Learning, Review, Relearning, Filtered, Manual}

(* One revlog entry: the fields of RevlogEntry that retention.rs reads. *)
Entry(cid, id, kind, button, millis) ==
    [cid |-> cid, id |-> id, review_kind |-> kind,
     button_chosen |-> button, taken_millis |-> millis]

(* The answers that the model lets a card receive: <<kind, button, millis>>. *)
(* Ratings 0..4 on Review, ratings 0, 2, 3 on Learning, and one answer of  *)
(* each kind whose button is never read; durations of 6 s and 14 s, whose  *)
(* averages can hit the seeded recall costs 14 / 14 / 10 / 6.              *)
Answers ==
    { <<Learning, 0, 6000>>, <<Learning, 2, 6000>>, <<Learning, 3, 14000>>,
      <<Review, 0, 6000>>, <<Review, 1, 14000>>, <<Review, 2, 6000>>,
      <<Review, 3, 6000>>, <<Review, 3, 14000>>, <<Review, 4, 6000>>,
      <<Relearning, 1, 6000>>,
      <<Filtered, 3, 6000>>,
      <<Manual, 0, 0>> }

(* The review logs a collection is opened with: an empty one, and one of   *)
(* a card that was learnt (Good, 6 s), reviewed (Good, 14 s), forgotten    *)
(* (Again, 6 s) and relearnt (6 s).                                        *)
OpenedLogs ==
    { << >>,
      << Entry(1, 1, Learning, 3, 6000), Entry(1, 2, Review, 3, 14000),
         Entry(1, 3, Review, 1, 6000), Entry(1, 4, Relearning, 3, 6000) >> }

(* the ids of the entries of the opened logs *)
OpenedIds == {1, 2, 3, 4}

----------------------------------------------------------------------------
(* f64 arithmetic on exact rationals *)

RECURSIVE GCD(_, _)
GCD(a, b) == IF b = 0 THEN a ELSE GCD(b, a % b)

(* n / d in f64, kept in lowest terms; 0.0 / 0.0 is NaN, written <<0, 0>> *)
Rat(n, d) ==
    IF d = 0 THEN <<0, 0>>
    ELSE LET g == GCD(n, d) IN <<n \div g, d \div g>>
IsNaN(x) == x[2] = 0
(* f64 `==`: NaN equals nothing *)
F64Eq(x, y) == ~IsNaN(x) /\ ~IsNaN(y) /\ x = y
RatAdd(x, y) ==
    IF IsNaN(x) \/ IsNaN(y) THEN <<0, 0>>
    ELSE Rat(x[1] * y[2] + y[1] * x[2], x[2] * y[2])

(* iterator sums *)
RECURSIVE SumSeq(_)
SumSeq(s) == IF s = << >> THEN 0 ELSE Head(s) + SumSeq(Tail(s))

RECURSIVE SumFn(_, _)
SumFn(f, S) ==
    IF S = {} THEN 0
    ELSE LET k == CHOOSE k \in S : TRUE IN f[k] + SumFn(f, S \ {k})

Millis(s) == [i \in 1..Len(s) |-> s[i].taken_millis]

(* Itertools::counts_by: a map from each key that occurs to its count *)
counts_by(s, f) ==
    [k \in {s[i][f] : i \in 1..Len(s)} |->
        Cardinality({i \in 1..Len(s) : s[i][f] = k})]

(* Itertools::group_by: the maximal runs of consecutive elements that      *)
(* have the same key, in order                                             *)
RECURSIVE group_by(_, _)
group_by(s, f) ==
    IF s = << >> THEN << >>
    ELSE LET rest == group_by(Tail(s), f) IN
         IF rest # << >> /\ Head(rest)[1][f] = Head(s)[f]
         THEN << <<Head(s)>> \o Head(rest) >> \o Tail(rest)
         ELSE << <<Head(s)>> >> \o rest

(* The comparison closures handed to sorted_by: cmp(a, b) # Greater *)
Le(order, a, b) ==
    IF order = "button_chosen" THEN a.button_chosen <= b.button_chosen
    ELSE a.cid < b.cid \/ (a.cid = b.cid /\ a.id <= b.id)

(* Itertools::sorted_by, a stable sort: each element is inserted after the *)
(* elements that do not compare greater than it                            *)
RECURSIVE InsertSorted(_, _, _)
InsertSorted(x, s, order) ==
    IF s = << >> THEN <<x>>
    ELSE IF Le(order, Head(s), x)
         THEN <<Head(s)>> \o InsertSorted(x, Tail(s), order)
         ELSE <<x>> \o s

RECURSIVE InsertionSort(_, _)
InsertionSort(s, order) ==
    IF s = << >> THEN << >>
    ELSE InsertSorted(s[Len(s)],
                      InsertionSort(SubSeq(s, 1, Len(s) - 1), order), order)

(* a stable sort leaves a sequence that is in order as it is *)
sorted_by(s, order) ==
    IF \A i \in 1..(Len(s) - 1) : Le(order, s[i], s[i + 1]) THEN s
    ELSE InsertionSort(s, order)

----------------------------------------------------------------------------
(* Result<T>: Ok(value) or Err(AnkiError) *)

Ok(v) == [ok |-> TRUE, val |-> v]
Err(e) == [ok |-> FALSE, err |-> e]

InvalidInput == "InvalidInput"
FsrsInsufficientData == "FsrsInsufficientData"
(* an index outside a fixed-size array aborts the call *)
Panic == "panic"

----------------------------------------------------------------------------
(* Collection::get_optimal_retention_parameters, pass by pass *)

RECURSIVE Flatten(_)
Flatten(ss) == IF ss = << >> THEN << >> ELSE Head(ss) \o Flatten(Tail(ss))

(* the closure with `>= 0` for `>= 1` *)
IsLearningRated_from_zero(r) == r.review_kind = Learning /\ r.button_chosen >= 0

(* |r| r.review_kind == Learning && r.button_chosen >= 1 *)
IsLearningRated(r) == r.review_kind = Learning /\ r.button_chosen >= 1

(* find that keeps the last match of the group *)
find_last(group) ==
    LET hits == {i \in 1..Len(group) :
                    group[i].review_kind = Learning /\ group[i].button_chosen >= 1}
    IN  IF hits = {} THEN << >>
        ELSE << group[CHOOSE i \in hits : \A j \in hits : i >= j] >>

(* Iterator::find on one card's group: Some(first match) as a one-element  *)
(* sequence, None as the empty one                                         *)
find(group) ==
    LET hits == {i \in 1..Len(group) : IsLearningRated(group[i])} IN
    IF hits = {} THEN << >>
    ELSE << group[CHOOSE i \in hits : \A j \in hits : i <= j] >>

(* .group_by(cid).map(find).filter(is_some) *)
first_ratings(revs) ==
    LET groups == group_by(revs, "cid") IN
    Flatten([g \in 1..Len(groups) |-> find(groups[g])])

first_rating_count(revs) == counts_by(first_ratings(revs), "button_chosen")

total_first(revs) ==
    LET c == first_rating_count(revs) IN SumFn(c, DOMAIN c)

(* the indices `*button_chosen as usize - 1` that the for_each writes *)
first_rating_indices(revs) == {b - 1 : b \in DOMAIN first_rating_count(revs)}

(* The block that binds first_rating_prob (lines 89-99):                   *)
(* let mut arr = [0.0; 4];                                                 *)
(* arr[*button_chosen as usize - 1] = *count as f64 / total_first          *)
first_rating_prob(revs) ==
    LET c == first_rating_count(revs)
        t == total_first(revs)
        written == first_rating_indices(revs)
    IN  IF ~(t > 0) THEN Err(FsrsInsufficientData)
        ELSE IF ~(written \subseteq 0..3) THEN Err(Panic)
        ELSE Ok([i \in 0..3 |->
                    IF i \in written THEN Rat(c[i + 1], t) ELSE Rat(0, 1)])

(* |r| r.review_kind == Review && r.button_chosen != 1 *)
IsReviewNotAgain(r) == r.review_kind = Review /\ r.button_chosen # 1

review_rating_count(revs) ==
    counts_by(SelectSeq(revs, IsReviewNotAgain), "button_chosen")

total_reviews(revs) ==
    LET c == review_rating_count(revs) IN SumFn(c, DOMAIN c)

(* the for_each without the filter in front of it *)
review_rating_indices_unfiltered(revs) ==
    {b - 2 : b \in DOMAIN review_rating_count(revs)}

(* .filter(|(&button_chosen, ..)| button_chosen >= 2): the indices         *)
(* `*button_chosen as usize - 2` that the for_each writes                  *)
review_rating_indices(revs) ==
    {b - 2 : b \in {b \in DOMAIN review_rating_count(revs) : b >= 2}}

(* the block failing with another error kind *)
review_rating_prob_other_error(revs) ==
    LET c == review_rating_count(revs)
        t == total_reviews(revs)
    IN  IF ~(t > 0) THEN Err(InvalidInput)
        ELSE Ok([i \in 0..2 |->
                    IF i \in review_rating_indices(revs) THEN Rat(c[i + 2], t)
                    ELSE Rat(0, 1)])

(* The block that binds review_rating_prob (lines 106-117):                *)
(* let mut arr = [0.0; 3];                                                 *)
(* arr[*button_chosen as usize - 2] = *count as f64 / total_reviews        *)
review_rating_prob(revs) ==
    LET c == review_rating_count(revs)
        t == total_reviews(revs)
        written == review_rating_indices(revs)
    IN  IF ~(t > 0) THEN Err(FsrsInsufficientData)
        ELSE IF ~(written \subseteq 0..2) THEN Err(Panic)
        ELSE Ok([i \in 0..2 |->
                    IF i \in written THEN Rat(c[i + 2], t) ELSE Rat(0, 1)])

(* let default = [14.0, 14.0, 10.0, 6.0] *)
default == [i \in 0..3 |-> Rat(<<14, 14, 10, 6>>[i + 1], 1)]

(* |r| r.review_kind == Review && r.button_chosen > 0 *)
IsReviewRated(r) == r.review_kind = Review /\ r.button_chosen > 0

(* .filter(..).sorted_by(button_chosen).group_by(button_chosen) *)
recall_groups(revs) ==
    group_by(sorted_by(SelectSeq(revs, IsReviewRated), "button_chosen"),
             "button_chosen")

(* the indices `button_chosen as usize - 1` that the for_each writes: one *)
(* for each button of the filtered entries                                 *)
recall_cost_indices(revs) ==
    {revs[i].button_chosen - 1 : i \in {i \in 1..Len(revs) : IsReviewRated(revs[i])}}

(* for_each group: arr[button_chosen as usize - 1] = sum / len / 1000.0 *)
RECURSIVE WriteAverages(_, _)
WriteAverages(arr, groups) ==
    IF groups = << >> THEN arr
    ELSE LET group_vec == Millis(Head(groups))
             button_chosen == Head(groups)[1].button_chosen
             average_secs == Rat(SumSeq(group_vec), Len(group_vec) * 1000)
         IN  WriteAverages(
                 [i \in DOMAIN arr |->
                     IF i = button_chosen - 1 THEN average_secs ELSE arr[i]],
                 Tail(groups))

(* [f64; 4] == [f64; 4] *)
ArrEq(a, b) == \A i \in DOMAIN a : F64Eq(a[i], b[i])

(* the block without its comparison with the seeded array *)
recall_costs_unchecked(revs) ==
    Ok(WriteAverages([i \in 0..3 |-> Rat(<<14, 14, 10, 6>>[i + 1], 1)],
                     recall_groups(revs)))

(* The block that binds recall_costs (lines 119-138) *)
recall_costs(revs) ==
    LET arr == WriteAverages(default, recall_groups(revs)) IN
    IF ~(recall_cost_indices(revs) \subseteq 0..3) THEN Err(Panic)
    ELSE IF ArrEq(arr, default) THEN Err(FsrsInsufficientData)
    ELSE Ok(arr)

(* the block dividing by the number of events summed *)
learn_cost_per_event(revs) ==
    LET revlogs_filter == Millis(SelectSeq(revs, IsLearningRated)) IN
    IF total_first(revs) > 0
    THEN Ok(Rat(SumSeq(revlogs_filter), Len(revlogs_filter) * 1000))
    ELSE Err(FsrsInsufficientData)

(* The block that binds learn_cost (lines 139-149):                        *)
(* revlogs_filter.sum::<u32>() as f64 / total_first / 1000.0               *)
learn_cost(revs) ==
    LET revlogs_filter == Millis(SelectSeq(revs, IsLearningRated)) IN
    IF total_first(revs) > 0
    THEN Ok(Rat(SumSeq(revlogs_filter), total_first(revs) * 1000))
    ELSE Err(FsrsInsufficientData)

(* the runs cut at card boundaries as well *)
review_kind_to_total_millis_per_card(revs) ==
    LET cards == group_by(sorted_by(revs, "cid_then_id"), "cid")
        groups == Flatten([c \in 1..Len(cards) |->
                              group_by(cards[c], "review_kind")])
    IN  [g \in 1..Len(groups) |->
            <<groups[g][1].review_kind, SumSeq(Millis(groups[g]))>>]

(* (review_kind, total_millis) of each run of consecutive entries of one   *)
(* review kind, in cid-then-id order                                       *)
review_kind_to_total_millis(revs) ==
    LET groups == group_by(sorted_by(revs, "cid_then_id"), "review_kind") IN
    [g \in 1..Len(groups) |->
        <<groups[g][1].review_kind, SumSeq(Millis(groups[g]))>>]

(* group_sec_by_review_kind[review_kind as usize].push(sec) *)
group_sec_by_review_kind(revs) ==
    LET runs == review_kind_to_total_millis(revs) IN
    [k \in 0..4 |->
        LET IsKind(x) == x[1] = k
            mine == SelectSeq(runs, IsKind)
        IN  [g \in 1..Len(mine) |-> mine[g][2]]]

(* the indices `review_kind as usize` that the push loop uses: one for    *)
(* each review kind of the entries                                         *)
forget_cost_indices(revs) == {revs[i].review_kind : i \in 1..Len(revs)}

(* The block that binds the array forget_cost (lines 151-184): the average *)
(* of each bucket, with NaN (an empty bucket) replaced by 0.0              *)
forget_cost(revs) ==
    LET buckets == group_sec_by_review_kind(revs) IN
    IF ~(forget_cost_indices(revs) \subseteq 0..4) THEN Err(Panic)
    ELSE Ok([k \in 0..4 |->
            LET group == buckets[k]
                average_secs == Rat(SumSeq(group), Len(group) * 1000)
            IN  IF IsNaN(average_secs) THEN Rat(0, 1) ELSE average_secs])

(* lines 186-201 *)
OptimalRetentionParameters(first_rating, review_rating, recall, learn, forget) ==
    [recall_secs_hard |-> recall[1],
     recall_secs_good |-> recall[2],
     recall_secs_easy |-> recall[3],
     forget_secs |-> RatAdd(forget[Relearning], recall[0]),
     learn_secs |-> learn,
     first_rating_probability_again |-> first_rating[0],
     first_rating_probability_hard |-> first_rating[1],
     first_rating_probability_good |-> first_rating[2],
     first_rating_probability_easy |-> first_rating[3],
     review_rating_probability_hard |-> review_rating[0],
     review_rating_probability_good |-> review_rating[1],
     review_rating_probability_easy |-> review_rating[2]]

(* A block of the function, run once: its value goes on into the rest of  *)
(* the function, its failure is what the function returns.                 *)
Try(block, Rest(_)) ==
    CHOOSE result \in {IF b.ok THEN Rest(b.val) ELSE b : b \in {block}} : TRUE

(* The whole function.  search is the outcome of search_cards_into_table   *)
(* on the filter, entries is what the storage returns for the searched     *)
(* cards, in card order.                                                   *)
get_optimal_retention_parameters(search, entries) ==
    IF search # "valid" THEN Err(InvalidInput)
    ELSE Try(first_rating_prob(entries), LAMBDA first_rating :
         Try(review_rating_prob(entries), LAMBDA review_rating :
         Try(recall_costs(entries), LAMBDA recall :
         Try(learn_cost(entries), LAMBDA learn :
         Try(forget_cost(entries), LAMBDA forget :
             Ok(OptimalRetentionParameters(first_rating, review_rating,
                                           recall, learn, forget)))))))

----------------------------------------------------------------------------
(* Floating-point retention values: v counts units of 2^-26 *)

F(v) == [nan |-> FALSE, v |-> v]
NaN == [nan |-> TRUE, v |-> 0]

(* the literals 0.75 and 0.95 of compute_optimal_retention, to the nearest *)
(* unit (0.75 is exact, 0.95 is not)                                       *)
Lit075 == 50331648
Lit095 == 63753421

(* f64::max and f64::min: a NaN operand is ignored *)
f64_max(x, y) ==
    IF x.nan THEN y ELSE IF y.nan THEN x ELSE IF x.v >= y.v THEN x ELSE y
f64_min(x, y) ==
    IF x.nan THEN y ELSE IF y.nan THEN x ELSE IF x.v <= y.v THEN x ELSE y

(* `as f32`: round to the nearest multiple of 2^-24, ties to even *)
as_f32(x) ==
    IF x.nan THEN x
    ELSE LET q == x.v \div 4
             r == x.v % 4
         IN  IF r < 2 \/ (r = 2 /\ q % 2 = 0) THEN F(4 * q) ELSE F(4 * (q + 1))

(* clamp without its lower bound *)
clamp_no_floor(x) == as_f32(f64_min(x, F(Lit095)))

(* .max(0.75).min(0.95) as f32 *)
clamp(x) == as_f32(f64_min(f64_max(x, F(Lit075)), F(Lit095)))

(* What the engine may hand back from optimal_retention: a raw estimate    *)
(* (0.50, 0.75, 0.85, 0.95, 0.99, or NaN) or one of its errors.  The       *)
(* engine is opaque, so every outcome is possible on every call.           *)
RawEstimates ==
    {F(33554432), F(50331648), F(57042534), F(63753421), F(66437775), NaN}
EngineErrors == {"EngineFailure", "Interrupted"}

----------------------------------------------------------------------------
(* Option<T> *)
None == << >>
Some(x) == <<x>>

(* ComputeOptimalRetentionRequest: the fields that decide the control flow *)
Requests == [days_to_simulate : {0, 365}, search : {"valid", "malformed"}]

(* ComputeRetentionProgress::default() *)
ComputeRetentionProgress == [current |-> 0, total |-> 0]

----------------------------------------------------------------------------
(* The collection and the calls made on it *)

Init ==
    /\ revlogs \in OpenedLogs
    /\ pc = "idle"
    /\ req = None
    /\ p = None
    /\ ret = None
    /\ raw = None
    /\ estimator_calls = 0
    /\ engine_calls = 0
    /\ anki_progress = ComputeRetentionProgress
    /\ want_abort = FALSE
    /\ ip = 0
    /\ cb_returned = None

LastCid == IF revlogs = << >> THEN 1 ELSE revlogs[Len(revlogs)].cid

(* A card is answered while no call is running: the entry the storage will *)
(* return last in card order (its cid is the largest, its id is fresh).    *)
AddRevlog ==
    /\ pc = "idle"
    /\ Cardinality({i \in 1..Len(revlogs) : revlogs[i].id \notin OpenedIds})
          < MaxAdded
    /\ \E cid \in {LastCid, LastCid + 1} \cap 1..MaxCards, a \in Answers :
          revlogs' = Append(revlogs,
                            Entry(cid, Len(revlogs) + 5, a[1], a[2], a[3]))
    /\ UNCHANGED <<pc, req, p, ret, raw, estimator_calls, engine_calls,
                   anki_progress, want_abort, ip, cb_returned>>

(* A caller invokes get_optimal_retention_parameters on its own. *)
EstimateParameters ==
    /\ pc = "idle"
    /\ \E search \in {"valid", "malformed"} :
          /\ req' = Some([search |-> search])
          /\ ret' = Some(get_optimal_retention_parameters(search, revlogs))
    /\ pc' = "estimated"
    /\ estimator_calls' = 1
    /\ engine_calls' = 0
    /\ p' = None
    /\ raw' = None
    /\ UNCHANGED <<revlogs, anki_progress, want_abort, ip, cb_returned>>

(* before_engine with the estimator run ahead of the days_to_simulate check *)
before_engine_estimator_first(r, entries) ==
    LET est == get_optimal_retention_parameters(r.search, entries) IN
    IF ~est.ok
    THEN [result |-> Some(est), p |-> None, estimator_calls |-> 1]
    ELSE IF r.days_to_simulate = 0
    THEN [result |-> Some(Err(InvalidInput)), p |-> None, estimator_calls |-> 1]
    ELSE [result |-> None, p |-> Some(est.val), estimator_calls |-> 1]

(* compute_optimal_retention up to the call of fsrs.optimal_retention      *)
(* (lines 25-30): the engine handle (FSRS::new(None) checks nothing when   *)
(* handed no weights), the check of days_to_simulate, the estimator.       *)
(* result is what the function has returned by then, if it has.            *)
before_engine(r, entries) ==
    IF r.days_to_simulate = 0
    THEN [result |-> Some(Err(InvalidInput)), p |-> None, estimator_calls |-> 0]
    ELSE LET est == get_optimal_retention_parameters(r.search, entries) IN
         IF est.ok
         THEN [result |-> None, p |-> Some(est.val), estimator_calls |-> 1]
         ELSE [result |-> Some(est), p |-> None, estimator_calls |-> 1]

(* after_engine with the engine's failure replaced by an estimate of 0.0 *)
after_engine_unwrap_or(engine_result) ==
    IF engine_result.ok THEN Ok(clamp(engine_result.val)) ELSE Ok(clamp(F(0)))

(* lines 62-64: `?` on the engine's result, then .max(0.75).min(0.95) as f32 *)
after_engine(engine_result) ==
    IF engine_result.ok THEN Ok(clamp(engine_result.val)) ELSE engine_result

(* compute_optimal_retention is called: a fresh progress handler, then     *)
(* lines 26-30; the engine is entered unless the function has returned.    *)
ComputeStart ==
    /\ pc = "idle"
    /\ \E r \in Requests :
        \E b \in {before_engine(r, revlogs)} :
        /\ req' = Some(r)
        /\ p' = b.p
        /\ ret' = b.result
        /\ estimator_calls' = b.estimator_calls
        /\ engine_calls' = IF b.result = None THEN 1 ELSE 0
        /\ pc' = IF b.result = None THEN "engine" ELSE "done"
    /\ anki_progress' = ComputeRetentionProgress
    /\ want_abort' = FALSE
    /\ ip' = 0
    /\ cb_returned' = None
    /\ raw' = None
    /\ UNCHANGED revlogs

(* The progress handler's update(throttle, mutator), handed the progress   *)
(* as the mutator left it: the progress is published to the caller, and    *)
(* the update is rejected when the caller has asked for the computation to *)
(* be abandoned.                                                           *)
update(throttle, mutated, abort) ==
    [progress |-> mutated,
     result |-> IF abort THEN Err("Interrupted") ELSE Ok(<< >>)]

(* the closure answering is_err() for is_ok() *)
progress_closure_is_err(current) ==
    LET u == update(FALSE, [anki_progress EXCEPT !.current = current],
                    want_abort)
    IN  [anki_progress |-> u.progress, returned |-> ~u.result.ok]

(* The closure |ip| of lines 55-61:                                        *)
(* anki_progress.update(false, |p| p.current = ip.current as u32).is_ok()  *)
(* (`as u32` keeps every counter below 2^32, and the engine's counter is   *)
(* at most MaxProgress here)                                               *)
progress_closure(current) ==
    LET u == update(FALSE, [anki_progress EXCEPT !.current = current],
                    want_abort)
    IN  [anki_progress |-> u.progress, returned |-> u.result.ok]

(* The engine advances its counter and reports it through the closure;     *)
(* what it does with the closure's answer is its own business.             *)
EngineProgress ==
    /\ pc = "engine"
    /\ ip < MaxProgress
    /\ ip' = ip + 1
    /\ \E c \in {progress_closure(ip + 1)} :
          /\ anki_progress' = c.anki_progress
          /\ cb_returned' = Some(c.returned)
    /\ UNCHANGED <<revlogs, pc, req, p, ret, raw, estimator_calls,
                   engine_calls, want_abort>>

(* The caller asks for the running computation to be abandoned. *)
RequestAbort ==
    /\ pc = "engine"
    /\ ~want_abort
    /\ want_abort' = TRUE
    /\ UNCHANGED <<revlogs, pc, req, p, ret, raw, estimator_calls,
                   engine_calls, anki_progress, ip, cb_returned>>

(* fsrs.optimal_retention returns a raw estimate or an error; raw keeps    *)
(* what it returned.  The engine's counter and the local progress handler  *)
(* end with the call.                                                      *)
EngineReturn ==
    /\ pc = "engine"
    /\ \E r \in {Ok(x) : x \in RawEstimates} \cup {Err(e) : e \in EngineErrors} :
            /\ raw' = Some(r)
            /\ ret' = Some(after_engine(r))
    /\ pc' = "done"
    /\ ip' = 0
    /\ cb_returned' = None
    /\ anki_progress' = ComputeRetentionProgress
    /\ UNCHANGED <<revlogs, req, p, estimator_calls, engine_calls, want_abort>>

(* The caller takes the result; the collection is free for the next call. *)
Finish ==
    /\ pc \in {"done", "estimated"}
    /\ pc' = "idle"
    /\ ret' = None
    /\ req' = None
    /\ p' = None
    /\ raw' = None
    /\ UNCHANGED <<revlogs, estimator_calls, engine_calls, anki_progress,
                   want_abort, ip, cb_returned>>

Next ==
    \/ AddRevlog
    \/ EstimateParameters
    \/ ComputeStart
    \/ EngineProgress
    \/ RequestAbort
    \/ EngineReturn
    \/ Finish

Spec == Init /\ [][Next]_vars

----------------------------------------------------------------------------
(* Properties of compute_optimal_retention *)

TheCall == pc = "done"
TheRequest == req[1]
TheResult == ret[1]

(* C1: whenever compute_optimal_retention succeeds, the f32 it returns is  *)
(* the engine's raw estimate clamped to [0.75, 0.95]: 0.95 for a raw       *)
(* estimate above 0.95, 0.75 for one below 0.75, the raw estimate itself   *)
(* (as an f32) for one inside, and never a value outside [0.75, 0.95].     *)
C1_ReturnsClampedEstimate ==
    (TheCall /\ TheResult.ok) =>
        /\ raw # None /\ raw[1].ok
        /\ ~TheResult.val.nan
        /\ Lit075 <= TheResult.val.v /\ TheResult.val.v <= Lit095
        /\ LET x == raw[1].val IN
           /\ (~x.nan /\ x.v > Lit095) => TheResult.val = as_f32(F(Lit095))
           /\ (~x.nan /\ x.v < Lit075) => TheResult.val = F(Lit075)
           /\ (~x.nan /\ Lit075 <= x.v /\ x.v <= Lit095)
                 => TheResult.val = as_f32(x)

(* a call that got 0.99 from the engine and returned 0.95 *)
C1_Witness ==
    /\ TheCall /\ TheResult.ok
    /\ raw = Some(Ok(F(66437775)))
    /\ TheResult.val = F(63753420)

(* C2: with days_to_simulate = 0 the call fails with InvalidInput, and     *)
(* neither the estimator nor the engine has been run, whatever the other   *)
(* fields of the request and whatever the review log holds.                *)
C2_ZeroDaysRejectedFirst ==
    (pc \in {"engine", "done"} /\ TheRequest.days_to_simulate = 0) =>
        /\ pc = "done"
        /\ ret = Some(Err(InvalidInput))
        /\ estimator_calls = 0
        /\ engine_calls = 0
        /\ p = None
        /\ raw = None

(* a rejected call whose filter and review log would have let the          *)
(* estimator succeed                                                       *)
C2_Witness ==
    /\ TheCall /\ TheRequest.days_to_simulate = 0
    /\ TheRequest.search = "valid"
    /\ get_optimal_retention_parameters("valid", revlogs).ok
    /\ ret = Some(Err(InvalidInput))

(* C3: a retention value is returned only if the estimator and the engine  *)
(* both succeeded; an estimator failure is returned as it is and the       *)
(* engine is not invoked; an engine failure is returned as it is.  (p is   *)
(* the bundle the estimator returned, raw what the engine returned.)       *)
C3_FailuresPropagate ==
    (TheCall /\ TheRequest.days_to_simulate # 0) =>
        /\ TheResult.ok => (p # None /\ raw # None /\ raw[1].ok)
        /\ (engine_calls = 0) = (p = None)
        /\ p = None =>
              LET est == get_optimal_retention_parameters(TheRequest.search,
                                                          revlogs)
              IN  ~est.ok /\ TheResult = est /\ raw = None
        /\ p # None => (raw # None /\ (~raw[1].ok => TheResult = raw[1]))

(* a call that ended with the engine's failure, and one that ended with    *)
(* the estimator's                                                         *)
C3_Witness ==
    /\ TheCall /\ TheRequest.days_to_simulate # 0
    /\ \/ raw = Some(Err("EngineFailure")) /\ TheResult = Err("EngineFailure")
       \/ /\ TheRequest.search = "valid" /\ engine_calls = 0
          /\ TheResult = Err(FsrsInsufficientData)

----------------------------------------------------------------------------
(* Properties of get_optimal_retention_parameters, stated on the review    *)
(* log itself: revlogs is in card_id-then-event_id order                   *)

Estimated == pc = "estimated" /\ req[1].search = "valid"
Succeeded == Estimated /\ ret[1].ok
Bundle == ret[1].val

Idx == 1..Len(revlogs)
Cards == {revlogs[i].cid : i \in Idx}

RECURSIVE MillisOver(_)
MillisOver(I) ==
    IF I = {} THEN 0
    ELSE LET i == CHOOSE i \in I : TRUE
         IN  revlogs[i].taken_millis + MillisOver(I \ {i})

(* a card's Learning-phase events with rating >= 1, and the first of them *)
Graduations(c) ==
    {i \in Idx : /\ revlogs[i].cid = c
                 /\ revlogs[i].review_kind = Learning
                 /\ revlogs[i].button_chosen >= 1}
GraduatedCards == {c \in Cards : Graduations(c) # {}}
FirstGraduation(c) ==
    CHOOSE i \in Graduations(c) : \A j \in Graduations(c) : i <= j
FirstRated(r) ==
    {c \in GraduatedCards : revlogs[FirstGraduation(c)].button_chosen = r}

FirstRatingProbability(r) ==
    CASE r = 1 -> Bundle.first_rating_probability_again
      [] r = 2 -> Bundle.first_rating_probability_hard
      [] r = 3 -> Bundle.first_rating_probability_good
      [] r = 4 -> Bundle.first_rating_probability_easy

One == <<1, 1>>

(* C4: first_rating_probability[r-1] is the share of the cards whose first *)
(* Learning-phase event with rating >= 1 has rating r, among the cards     *)
(* that have such an event; the four entries sum to 1.                     *)
C4_FirstRatingShares ==
    Succeeded =>
        /\ \A r \in 1..4 :
              FirstRatingProbability(r)
                  = Rat(Cardinality(FirstRated(r)), Cardinality(GraduatedCards))
        /\ RatAdd(RatAdd(FirstRatingProbability(1), FirstRatingProbability(2)),
                  RatAdd(FirstRatingProbability(3), FirstRatingProbability(4)))
              = One

(* two graduated cards, one first rated Hard and one first rated Good, and *)
(* a card that was rated twice while learning, differently                 *)
C4_Witness ==
    /\ Succeeded
    /\ FirstRatingProbability(2) = <<1, 2>>
    /\ FirstRatingProbability(3) = <<1, 2>>
    /\ \E c \in Cards : \E i, j \in Graduations(c) :
          revlogs[i].button_chosen # revlogs[j].button_chosen

(* C5: the three entries of review_rating_probability sum to 1, also when  *)
(* the log holds Review-phase events with rating 0.                        *)
C5_ReviewRatingSumsToOne ==
    Succeeded =>
        RatAdd(RatAdd(Bundle.review_rating_probability_hard,
                      Bundle.review_rating_probability_good),
               Bundle.review_rating_probability_easy) = One

(* the Review-phase events with rating r *)
ReviewsRated(r) ==
    {i \in Idx : revlogs[i].review_kind = Review /\ revlogs[i].button_chosen = r}

(* the seeded recall cost of rating r, in seconds *)
SeededSecs(r) == <<<<14, 1>>, <<14, 1>>, <<10, 1>>, <<6, 1>>>>[r]

(* the recall cost of rating r: the mean over its Review-phase events, the *)
(* seeded value when it has none                                           *)
RecallSecs(r) ==
    IF ReviewsRated(r) = {} THEN SeededSecs(r)
    ELSE Rat(MillisOver(ReviewsRated(r)), Cardinality(ReviewsRated(r)) * 1000)

(* the maximal runs <<i, j>> of consecutive Relearning-phase events *)
IsRelearning(i) == revlogs[i].review_kind = Relearning
RelearningRuns ==
    {run \in Idx \X Idx :
        /\ run[1] <= run[2]
        /\ \A k \in run[1]..run[2] : IsRelearning(k)
        /\ (run[1] = 1 \/ ~IsRelearning(run[1] - 1))
        /\ (run[2] = Len(revlogs) \/ ~IsRelearning(run[2] + 1))}

(* the mean over the runs of each run's total duration, 0 without a run *)
RelearningSecs ==
    IF RelearningRuns = {} THEN <<0, 1>>
    ELSE Rat(MillisOver({i \in Idx : IsRelearning(i)}),
             Cardinality(RelearningRuns) * 1000)

(* C6 as the spec has it: every recall cost of a returned bundle is an     *)
(* average over at least one Review-phase event of its rating.             *)
C6_NoSeededCostReturned ==
    Succeeded => \A r \in 1..4 : ReviewsRated(r) # {}

(* C6: in a returned bundle each recall cost (Hard, Good, Easy, and the    *)
(* Again cost inside forget_secs) is the mean over the Review-phase events *)
(* of its rating, or the seeded 14 / 14 / 10 / 6 when the rating has none; *)
(* the four are never all equal to the seeded values.                      *)
C6_SeededCostOnlyForMissingRating ==
    Succeeded =>
        /\ Bundle.recall_secs_hard = RecallSecs(2)
        /\ Bundle.recall_secs_good = RecallSecs(3)
        /\ Bundle.recall_secs_easy = RecallSecs(4)
        /\ Bundle.forget_secs = RatAdd(RelearningSecs, RecallSecs(1))
        /\ \E r \in 1..4 : RecallSecs(r) # SeededSecs(r)

(* a bundle whose Hard cost is the seeded one and whose Good cost is not *)
C6_Witness ==
    /\ Succeeded
    /\ ReviewsRated(2) = {} /\ Bundle.recall_secs_hard = <<14, 1>>
    /\ ReviewsRated(3) # {} /\ Bundle.recall_secs_good # <<10, 1>>

C8_ForgetCostOverRuns ==
    Succeeded =>
        /\ Bundle.forget_secs = RatAdd(RelearningSecs, RecallSecs(1))
        /\ (\A i \in Idx : ~IsRelearning(i)) => Bundle.forget_secs = RecallSecs(1)

(* a run of two Relearning-phase events of two different cards *)
C8_Witness ==
    /\ Succeeded
    /\ \E run \in RelearningRuns : revlogs[run[1]].cid # revlogs[run[2]].cid
    /\ Bundle.forget_secs = <<18, 1>>

(* C9: without a Learning-phase event with rating >= 1 the estimator fails *)
(* with InsufficientData, whatever else the log holds.                     *)
C9_NoGraduationFails ==
    (Estimated /\ GraduatedCards = {}) => ret = Some(Err(FsrsInsufficientData))

(* a log with rated Review-phase events and an unrated Learning-phase one *)
C9_Witness ==
    /\ Estimated /\ GraduatedCards = {}
    /\ \E r \in 1..4 : ReviewsRated(r) # {}
    /\ \E i \in Idx : revlogs[i].review_kind = Learning
    /\ ret = Some(Err(FsrsInsufficientData))

(* C10: without a Review-phase event the estimator fails with              *)
(* InsufficientData, also when the log holds graduations.                  *)
C10_NoReviewFails ==
    (Estimated /\ \A i \in Idx : revlogs[i].review_kind # Review)
        => ret = Some(Err(FsrsInsufficientData))

(* a log with a graduation and no Review-phase event *)
C10_Witness ==
    /\ Estimated /\ GraduatedCards # {}
    /\ \A i \in Idx : revlogs[i].review_kind # Review
    /\ ret = Some(Err(FsrsInsufficientData))

----------------------------------------------------------------------------
(* Failures of get_optimal_retention_parameters *)

(* the block of the function whose failure a log runs into *)
FailedPass(entries) ==
    IF ~first_rating_prob(entries).ok THEN "first_rating"
    ELSE IF ~review_rating_prob(entries).ok THEN "review_rating"
    ELSE IF ~recall_costs(entries).ok THEN "recall_cost"
    ELSE IF ~learn_cost(entries).ok THEN "learn_cost"
    ELSE "none"

(* logs that fail in the first-rating, the review-rating and the           *)
(* recall-cost block: an empty one, a lone graduation, a graduation with   *)
(* an unrated review                                                       *)
FailingLogs ==
    { << >>,
      << Entry(1, 1, Learning, 3, 6000) >>,
      << Entry(1, 1, Learning, 3, 6000), Entry(1, 2, Review, 0, 6000) >> }

(* C11: an InsufficientData failure tells the caller which statistic could *)
(* not be computed: the error returned for a log differs from the error    *)
(* returned for any log that fails in another block.                       *)
C11_FailureNamesStatistic ==
    (Estimated /\ ret = Some(Err(FsrsInsufficientData))) =>
        \A other \in FailingLogs :
            FailedPass(other) # FailedPass(revlogs) =>
                get_optimal_retention_parameters("valid", other) # ret[1]

(* C12: a log that gets past the first-rating and review-rating blocks and *)
(* holds a Review-phase event with rating in 1..4 does not fail in the     *)
(* recall-cost block, whatever the durations of its events are.            *)
C12_RecallFailsOnlyWithoutReviews ==
    (/\ Estimated
     /\ FailedPass(revlogs) \notin {"first_rating", "review_rating"}
     /\ \E r \in 1..4 : ReviewsRated(r) # {})
        => ret # Some(Err(FsrsInsufficientData))

----------------------------------------------------------------------------
(* The progress callback *)

(* a step in which the engine called the closure *)
CallbackStep == pc = "engine" /\ pc' = "engine" /\ ip' # ip

----------------------------------------------------------------------------
(* The estimator on every short review log *)

(* every review kind with every button 0..4 *)
AllAnswers == ReviewKinds \X (0..4)

(* the cards of a log of n entries in card order: the first entry is card  *)
(* 1's, each further entry is the same card's or the next card's           *)
CardOrders(n) ==
    {c \in [1..n -> 1..MaxCards] :
        /\ n > 0 => c[1] = 1
        /\ \A i \in 1..(n - 1) : c[i + 1] \in {c[i], c[i] + 1}}

(* the collection holds any review log of at most MaxLog entries, each     *)
(* answered in 8 s                                                         *)
InitAnyLog ==
    /\ \E n \in 0..MaxLog :
          \E c \in CardOrders(n), a \in [1..n -> AllAnswers] :
              revlogs = [i \in 1..n |-> Entry(c[i], i, a[i][1], a[i][2], 8000)]
    /\ pc = "idle"
    /\ req = None
    /\ p = None
    /\ ret = None
    /\ raw = None
    /\ estimator_calls = 0
    /\ engine_calls = 0
    /\ anki_progress = ComputeRetentionProgress
    /\ want_abort = FALSE
    /\ ip = 0
    /\ cb_returned = None

NextEstimate ==
    \/ EstimateParameters
    \/ Finish

SpecAnyLog == InitAnyLog /\ [][NextEstimate]_vars

(* C14: with buttons in 0..4 and the five review kinds, no block of the    *)
(* estimator indexes outside its array or below zero: the first-rating     *)
(* block writes indices 0..3, for buttons 1..4 only; the review-rating     *)
(* block indices 0..2, for buttons 2..4 only; the recall-cost block        *)
(* indices 0..3, for buttons 1..4 only; the forget-cost block the buckets  *)
(* 0..4; the call never aborts.                                            *)
C14_IndicesInBounds ==
    Estimated =>
        /\ ret[1].ok \/ ret[1].err # Panic
        /\ first_rating_indices(revlogs) \subseteq 0..3
        /\ first_rating_indices(revlogs) =
              {b - 1 : b \in {b \in 1..4 : FirstRated(b) # {}}}
        /\ review_rating_indices(revlogs) \subseteq 0..2
        /\ review_rating_indices(revlogs) =
              {b - 2 : b \in {b \in 2..4 : ReviewsRated(b) # {}}}
        /\ recall_cost_indices(revlogs) \subseteq 0..3
        /\ recall_cost_indices(revlogs) =
              {b - 1 : b \in {b \in 1..4 : ReviewsRated(b) # {}}}
        /\ forget_cost_indices(revlogs) \subseteq 0..4

(* a graduation with button 4 and a Review-phase event with button 4: the *)
(* last slot of each rating array is written and the call returns a bundle *)
C14_Witness ==
    /\ Succeeded
    /\ first_rating_indices(revlogs) = {3}
    /\ review_rating_indices(revlogs) = {2}
    /\ recall_cost_indices(revlogs) = {3}
    /\ forget_cost_indices(revlogs) = {Learning, Review}

====
